---- MODULE Spec2Model ----
(***************************************************************************)
(* Model of analysis.py: the diamonds cleaning and analysis pipeline.      *)
(*                                                                         *)
(* The script is one module-level sequence of statements over a single     *)
(* DataFrame df.  Numbers are scaled integers: Decimals digits after the   *)
(* point (carat 1.00 is 100, price 3000.00 is 300000, price_per_carat      *)
(* 3000.00 is 300000).  Strings of the cut column are sequences of         *)
(* one-character strings so that str.strip() and str.title() are computed. *)
(* A missing cell (NaN) of a row is recorded in the row's field na, the    *)
(* set of the row's columns that hold NaN.                                 *)
(***************************************************************************)
EXTENDS Integers, Sequences, FiniteSets, TLC

VARIABLES
    pc,        \* the statement group the script is at
    src,       \* content of data/diamonds_sample.csv: the rows of the file
    df,        \* the rows of the DataFrame df, each with its index label idx
    columns,   \* df.columns
    png,       \* outputs/diamonds_dashboard.png was written by this run
    csv,       \* outputs/diamonds_cleaned.csv as written by this run
    executed,  \* how many times each statement group ran to its end
    failedAt   \* the statement group that raised, "" when none did

vars == <<pc, src, df, columns, png, csv, executed, failedAt>>

\* ------------------------------------------------------------------ bounds
MaxRows == 3
MaxCarat == 8
Window == 3

\* --------------------------------------------------------------- constants
Decimals == 2
Scale == 10 ^ Decimals

Budget == 2000 * Scale
MidRange == 5000 * Scale

bins == <<0 * Scale, 500 * Scale, 1000 * Scale, 2000 * Scale, 5000 * Scale>>
labels == <<"<$500", "$500-$1k", "$1k-$2k", "$2k+">>

InputCols == <<"carat", "cut", "color", "price">>

Stages == <<"setup", "load", "explore", "dedup", "dropna", "dropinvalid",
            "normalize", "ppc", "categorise", "band", "analyse", "render",
            "export">>

StageSet == {Stages[i] : i \in 1..Len(Stages)}

Pos(s) == CHOOSE i \in 1..Len(Stages) : Stages[i] = s

\* ----------------------------------------------------------------- strings
Lowers == <<"a", "b", "c", "d", "e", "f", "g", "h", "i", "j", "k", "l", "m",
            "n", "o", "p", "q", "r", "s", "t", "u", "v", "w", "x", "y", "z">>
Uppers == <<"A", "B", "C", "D", "E", "F", "G", "H", "I", "J", "K", "L", "M",
            "N", "O", "P", "Q", "R", "S", "T", "U", "V", "W", "X", "Y", "Z">>

IsLower(c) == \E i \in 1..Len(Lowers) : Lowers[i] = c
IsUpper(c) == \E i \in 1..Len(Uppers) : Uppers[i] = c
IsCased(c) == IsLower(c) \/ IsUpper(c)
IsSpace(c) == c = " "

ToUpper(c) == IF IsLower(c) THEN Uppers[CHOOSE i \in 1..Len(Lowers) : Lowers[i] = c] ELSE c
ToLower(c) == IF IsUpper(c) THEN Lowers[CHOOSE i \in 1..Len(Uppers) : Uppers[i] = c] ELSE c

RECURSIVE LStrip(_)
LStrip(s) == IF s # <<>> /\ IsSpace(Head(s)) THEN LStrip(Tail(s)) ELSE s

RECURSIVE RStrip(_)
RStrip(s) == IF s # <<>> /\ IsSpace(s[Len(s)]) THEN RStrip(SubSeq(s, 1, Len(s) - 1)) ELSE s

\* str.strip(): leading and trailing whitespace removed
Strip(s) == RStrip(LStrip(s))

\* str.title(): a cased character is upper case when it follows an uncased
\* character (or starts the string) and lower case otherwise
Title(s) == [i \in 1..Len(s) |->
                IF i = 1 \/ ~IsCased(s[i - 1]) THEN ToUpper(s[i]) ELSE ToLower(s[i])]

\* ------------------------------------------------------------ cell access
IsNull(r, c) == c \in r.na

\* df[c] > 0 on one row: a comparison with NaN is False
GtZero(r, c) == ~IsNull(r, c) /\ r[c] > 0

\* the cells of a row without its index label
Data(r) == [r EXCEPT !.idx = 0]

RECURSIVE Filter(_, _)
Filter(t, keep) ==
    IF t = <<>> THEN <<>>
    ELSE IF Head(t).idx \in keep THEN <<Head(t)>> \o Filter(Tail(t), keep)
    ELSE Filter(Tail(t), keep)

\* -------------------------------------------------------------- the loader
\* pd.read_csv: one row per line of the file, labelled 0, 1, 2, ... (RangeIndex)
ReadCsv(file) == [i \in 1..Len(file) |->
                    [idx |-> i - 1, carat |-> file[i].carat, cut |-> file[i].cut,
                     color |-> file[i].color, price |-> file[i].price, na |-> file[i].na]]

\* ------------------------------------------------------------- the cleaner
RECURSIVE DropDupFrom(_, _)
DropDupFrom(kept, rest) ==
    IF rest = <<>> THEN kept
    ELSE IF \E k \in 1..Len(kept) : Data(kept[k]) = Data(Head(rest))
         THEN DropDupFrom(kept, Tail(rest))
         ELSE DropDupFrom(Append(kept, Head(rest)), Tail(rest))

\* df.drop_duplicates(): keep the first of the rows equal in every column
DropDuplicates(t) == DropDupFrom(<<>>, t)

\* df.dropna(): drop the rows with any NaN cell
DropNa(t) == Filter(t, {t[i].idx : i \in {j \in 1..Len(t) : t[j].na = {}}})

\* variant: the price test written >= 0, so a zero price passes
PriceFilterNonNegative(t) ==
    Filter(t, {t[i].idx : i \in {j \in 1..Len(t) : ~IsNull(t[j], "price") /\ t[j].price >= 0}})

PriceFilter(t) == Filter(t, {t[i].idx : i \in {j \in 1..Len(t) : GtZero(t[j], "price")}})
CaratFilter(t) == Filter(t, {t[i].idx : i \in {j \in 1..Len(t) : GtZero(t[j], "carat")}})

\* df = df[df["price"] > 0]; df = df[df["carat"] > 0]
DropInvalid(t) == CaratFilter(PriceFilter(t))

\* df["cut"] = df["cut"].str.strip().str.title(); NaN stays NaN
NormalizeCut(t) == [i \in 1..Len(t) |->
                      IF IsNull(t[i], "cut") THEN t[i]
                      ELSE [t[i] EXCEPT !.cut = Title(Strip(@))]]

\* the four cleaning statements in the order the script runs them
Cleaner(t) == NormalizeCut(DropInvalid(DropNa(DropDuplicates(t))))

\* --------------------------------------------------------- the transformer
\* variant: the quotient cut off after the second decimal instead of rounded
RoundDivTruncate(n, d) == n \div d

\* n / d rounded to the nearest integer, ties to the even one (numpy round)
RoundDiv(n, d) ==
    LET q == n \div d
        r == n % d
    IN  IF 2 * r < d THEN q
        ELSE IF 2 * r > d THEN q + 1
        ELSE IF q % 2 = 0 THEN q ELSE q + 1

\* (price / carat).round(2), in units of 10^-Decimals
PricePerCarat(price, carat) == RoundDiv(price * Scale, carat)

\* variant: the two comparisons written <=, so a tie goes to the lower bucket
categoriseInclusive(ppc) ==
    IF ppc <= Budget THEN "Budget"
    ELSE IF ppc <= MidRange THEN "Mid-Range"
    ELSE "Premium"

categorise(ppc) ==
    IF ppc < Budget THEN "Budget"
    ELSE IF ppc < MidRange THEN "Mid-Range"
    ELSE "Premium"

\* pd.cut(price, bins, labels) with right=True: bin k is (bins[k], bins[k+1]];
\* a price in no bin gets NaN, written here as the empty label
NoLabel == ""
\* variant: pd.cut with right=False, bin k is [bins[k], bins[k+1])
PriceBandLeftClosed(price) ==
    IF \E k \in 1..Len(labels) : bins[k] <= price /\ price < bins[k + 1]
    THEN labels[CHOOSE k \in 1..Len(labels) : bins[k] <= price /\ price < bins[k + 1]]
    ELSE NoLabel

PriceBand(price) ==
    IF \E k \in 1..Len(labels) : bins[k] < price /\ price <= bins[k + 1]
    THEN labels[CHOOSE k \in 1..Len(labels) : bins[k] < price /\ price <= bins[k + 1]]
    ELSE NoLabel

AddPricePerCarat(t) == [i \in 1..Len(t) |->
    [idx |-> t[i].idx, carat |-> t[i].carat, cut |-> t[i].cut, color |-> t[i].color,
     price |-> t[i].price, na |-> t[i].na,
     price_per_carat |-> PricePerCarat(t[i].price, t[i].carat)]]

AddValueCategory(t) == [i \in 1..Len(t) |->
    [idx |-> t[i].idx, carat |-> t[i].carat, cut |-> t[i].cut, color |-> t[i].color,
     price |-> t[i].price, na |-> t[i].na,
     price_per_carat |-> t[i].price_per_carat,
     value_category |-> categorise(t[i].price_per_carat)]]

AddPriceBand(t) == [i \in 1..Len(t) |->
    LET b == PriceBand(t[i].price) IN
    [idx |-> t[i].idx, carat |-> t[i].carat, cut |-> t[i].cut, color |-> t[i].color,
     price |-> t[i].price,
     na |-> IF b = NoLabel THEN t[i].na \cup {"price_band"} ELSE t[i].na,
     price_per_carat |-> t[i].price_per_carat,
     value_category |-> t[i].value_category,
     price_band |-> b]]

\* ------------------------------------------------------------ the exporter
\* df.to_csv(path, index=False): the header, then one line per row in row
\* order, without the index label; a NaN cell is written as the empty field
CsvLine(r) ==
    [carat |-> r.carat, cut |-> r.cut, color |-> r.color, price |-> r.price,
     price_per_carat |-> r.price_per_carat, value_category |-> r.value_category,
     price_band |-> IF IsNull(r, "price_band") THEN "" ELSE r.price_band]

ToCsv(t, cols) == [written |-> TRUE, header |-> cols,
                   lines |-> [i \in 1..Len(t) |-> CsvLine(t[i])]]

NoFile == [written |-> FALSE, header |-> <<>>, lines |-> <<>>]

\* ------------------------------------------------------------- input files
FileRow(carat, cut, color, price, na) ==
    [carat |-> carat, cut |-> cut, color |-> color, price |-> price, na |-> na]

\* rows a data file may hold: untrimmed and lower-case cuts, a zero carat, a
\* missing cut, a zero price, a price above the last bin, and one-carat rows
\* whose price per carat is 2000.00, 4999.99 and 5000.00
RowPool ==
    { FileRow(100, <<" ", "i", "d", "e", "a", "l", " ">>, "E", 3000 * Scale, {}),
      FileRow(100, <<"I", "d", "e", "a", "l">>, "E", 3000 * Scale, {}),
      FileRow(0, <<"G", "o", "o", "d">>, "F", 500 * Scale, {}),
      FileRow(50, <<>>, "D", 400 * Scale, {"cut"}),
      FileRow(70, <<"f", "a", "i", "r">>, "D", 0, {}),
      FileRow(200, <<"v", "e", "r", "y", " ", "g", "o", "o", "d">>, "G", 6000 * Scale, {}),
      FileRow(100, <<"G", "o", "o", "d">>, "F", 2000 * Scale, {}),
      FileRow(100, <<"G", "o", "o", "d">>, "F", 5000 * Scale - 1, {}),
      FileRow(100, <<"G", "o", "o", "d">>, "F", 5000 * Scale, {}) }

RECURSIVE Tables(_)
Tables(n) == IF n = 0 THEN {<<>>}
             ELSE Tables(n - 1) \cup
                  {Append(t, r) : t \in {u \in Tables(n - 1) : Len(u) = n - 1}, r \in RowPool}

\* prices within Window of a bin edge, carats up to MaxCarat hundredths or 1.00
RangePrices == UNION {(bins[k] - Window)..(bins[k] + Window) : k \in 1..Len(bins)}
RangeCarats == (1..MaxCarat) \cup {Scale}

RangeTables == {<<FileRow(c, <<"I", "d", "e", "a", "l">>, "E", p, {})>> :
                    c \in RangeCarats, p \in RangePrices}

Inputs == Tables(MaxRows) \cup RangeTables

\* ------------------------------------------------------------ the pipeline
Init ==
    /\ pc = "setup"
    /\ src \in Inputs
    /\ df = <<>>
    /\ columns = <<>>
    /\ png = FALSE
    /\ csv = NoFile
    /\ executed = [s \in StageSet |-> 0]
    /\ failedAt = ""

\* statement group s ran to its end and control falls through to the group nxt
Advance(s, nxt) ==
    /\ pc = s
    /\ pc' = nxt
    /\ executed' = [executed EXCEPT ![s] = @ + 1]
    /\ UNCHANGED <<src, failedAt>>

\* os.makedirs("outputs", exist_ok=True)
Setup ==
    /\ Advance("setup", "load")
    /\ UNCHANGED <<df, columns, png, csv>>

\* df = pd.read_csv("data/diamonds_sample.csv")
Load ==
    /\ Advance("load", "explore")
    /\ df' = ReadCsv(src)
    /\ columns' = InputCols
    /\ UNCHANGED <<png, csv>>

\* head, dtypes, isnull().sum(), describe(): prints only
Explore ==
    /\ Advance("explore", "dedup")
    /\ UNCHANGED <<df, columns, png, csv>>

Dedup ==
    /\ Advance("dedup", "dropna")
    /\ df' = DropDuplicates(df)
    /\ UNCHANGED <<columns, png, csv>>

DropIncomplete ==
    /\ Advance("dropna", "dropinvalid")
    /\ df' = DropNa(df)
    /\ UNCHANGED <<columns, png, csv>>

DropInvalidRows ==
    /\ Advance("dropinvalid", "normalize")
    /\ df' = DropInvalid(df)
    /\ UNCHANGED <<columns, png, csv>>

Normalize ==
    /\ Advance("normalize", "ppc")
    /\ df' = NormalizeCut(df)
    /\ UNCHANGED <<columns, png, csv>>

ComputePricePerCarat ==
    /\ Advance("ppc", "categorise")
    /\ df' = AddPricePerCarat(df)
    /\ columns' = Append(columns, "price_per_carat")
    /\ UNCHANGED <<png, csv>>

Categorise ==
    /\ Advance("categorise", "band")
    /\ df' = AddValueCategory(df)
    /\ columns' = Append(columns, "value_category")
    /\ UNCHANGED <<png, csv>>

Band ==
    /\ Advance("band", "analyse")
    /\ df' = AddPriceBand(df)
    /\ columns' = Append(columns, "price_band")
    /\ UNCHANGED <<png, csv>>

RECURSIVE Reverse(_)
Reverse(t) == IF t = <<>> THEN <<>> ELSE Append(Reverse(Tail(t)), Head(t))

\* variant: the analyser assigns a re-ordered table back to df
AnalyseReorders ==
    /\ Advance("analyse", "render")
    /\ df' = Reverse(df)
    /\ UNCHANGED <<columns, png, csv>>

\* groupby means, value_counts, corr: printed, df is not assigned
Analyse ==
    /\ Advance("analyse", "render")
    /\ UNCHANGED <<df, columns, png, csv>>

\* variant: the figure is drawn but never saved
RenderNoSave ==
    /\ Advance("render", "export")
    /\ UNCHANGED <<df, columns, png, csv>>

\* the four charts, then plt.savefig("outputs/diamonds_dashboard.png")
Render ==
    /\ Advance("render", "export")
    /\ png' = TRUE
    /\ UNCHANGED <<df, columns, csv>>

\* df.to_csv("outputs/diamonds_cleaned.csv", index=False)
Export ==
    /\ Advance("export", "done")
    /\ csv' = ToCsv(df, columns)
    /\ UNCHANGED <<df, columns, png>>

\* variant: the exception is swallowed and the script goes on with the next group
AbortSwallowed ==
    /\ pc \in StageSet
    /\ pc' = IF Pos(pc) = Len(Stages) THEN "done" ELSE Stages[Pos(pc) + 1]
    /\ failedAt' = pc
    /\ UNCHANGED <<src, df, columns, png, csv, executed>>

\* a statement raises: the script has no exception handler, the run ends there
Abort ==
    /\ pc \in StageSet
    /\ pc' = "failed"
    /\ failedAt' = pc
    /\ UNCHANGED <<src, df, columns, png, csv, executed>>

Next ==
    \/ Setup
    \/ Load
    \/ Explore
    \/ Dedup
    \/ DropIncomplete
    \/ DropInvalidRows
    \/ Normalize
    \/ ComputePricePerCarat
    \/ Categorise
    \/ Band
    \/ Analyse
    \/ Render
    \/ Export
    \/ Abort

Spec == Init /\ [][Next]_vars

\* the interpreter keeps executing the next statement until the script ends
FairSpec == Spec /\ WF_vars(Next)

Terminated == pc \in {"done", "failed"}
Cleaned == pc \in {"ppc", "categorise", "band", "analyse", "render", "export", "done"}

\* =================================================================== claims
IdealCut == <<"I", "d", "e", "a", "l">>

C1Input ==
    << FileRow(100, <<" ", "i", "d", "e", "a", "l", " ">>, "E", 3000 * Scale, {}),
       FileRow(100, IdealCut, "E", 3000 * Scale, {}),
       FileRow(0, <<"G", "o", "o", "d">>, "F", 500 * Scale, {}) >>

\* C1: on the three example rows the cleaner leaves exactly one row, and after
\* the transformer that row has cut "Ideal", price_per_carat 3000.00,
\* value_category "Mid-Range" and price_band "$2k+".
C1_ExampleOneRow ==
    (src = C1Input /\ pc = "analyse") =>
        /\ Len(df) = 1
        /\ df[1].cut = IdealCut
        /\ df[1].price_per_carat = 3000 * Scale
        /\ df[1].value_category = "Mid-Range"
        /\ df[1].price_band = "$2k+"

\* C2: the cleaner is idempotent: cleaning the cleaned table returns it unchanged.
C2_CleanerIdempotent == pc = "ppc" => Cleaner(df) = df

\* C3: the cleaner's output, and so the exported file, holds no two rows equal
\* in all columns.
C3_NoDuplicateRows ==
    /\ Cleaned => \A i, j \in 1..Len(df) : i # j => Data(df[i]) # Data(df[j])
    /\ \A i, j \in 1..Len(csv.lines) : i # j => csv.lines[i] # csv.lines[j]

C5_CategoryBoundaries ==
    pc \in {"band", "analyse", "render", "export", "done"} =>
        \A i \in 1..Len(df) :
            LET x == df[i].price_per_carat
                v == df[i].value_category
            IN  /\ v \in {"Budget", "Mid-Range", "Premium"}
                /\ (v = "Budget") <=> (x < 2000 * Scale)
                /\ (v = "Mid-Range") <=> (2000 * Scale <= x /\ x < 5000 * Scale)
                /\ (v = "Premium") <=> (x >= 5000 * Scale)

C5_Witness ==
    /\ pc = "done"
    /\ \E k \in 1..Len(csv.lines) :
          csv.lines[k].price_per_carat = 2000 * Scale /\ csv.lines[k].value_category = "Mid-Range"
    /\ \E k \in 1..Len(csv.lines) :
          csv.lines[k].price_per_carat = 5000 * Scale - 1 /\ csv.lines[k].value_category = "Mid-Range"
    /\ \E k \in 1..Len(csv.lines) :
          csv.lines[k].price_per_carat = 5000 * Scale /\ csv.lines[k].value_category = "Premium"

\* the rows of the file that outlive the cleaner, stated on the file itself
Survives(i) ==
    /\ src[i].na = {}
    /\ src[i].price > 0
    /\ src[i].carat > 0
    /\ \A j \in 1..(i - 1) : src[j] # src[i]

Survivors == {i \in 1..Len(src) : Survives(i)}

\* the k-th surviving row of the file, in file order
Kth(k) == CHOOSE i \in Survivors : Cardinality({j \in Survivors : j <= i}) = k

\* C6: price_band is "<$500" on (0,500], "$500-$1k" on (500,1000], "$1k-$2k"
\* on (1000,2000], "$2k+" on (2000,5000]; a surviving row with a price above
\* 5000 stays in the table and is exported with an empty price_band.
C6_PriceBands ==
    /\ pc \in {"analyse", "render", "export", "done"} =>
          \A i \in 1..Len(df) :
              LET p == df[i].price
                  b == df[i].price_band
              IN  /\ (0 < p /\ p <= 500 * Scale) => (b = "<$500" /\ ~IsNull(df[i], "price_band"))
                  /\ (500 * Scale < p /\ p <= 1000 * Scale) => (b = "$500-$1k" /\ ~IsNull(df[i], "price_band"))
                  /\ (1000 * Scale < p /\ p <= 2000 * Scale) => (b = "$1k-$2k" /\ ~IsNull(df[i], "price_band"))
                  /\ (2000 * Scale < p /\ p <= 5000 * Scale) => (b = "$2k+" /\ ~IsNull(df[i], "price_band"))
                  /\ (p > 5000 * Scale) => IsNull(df[i], "price_band")
    /\ pc = "done" =>
          /\ \A i \in Survivors : src[i].price > 5000 * Scale =>
                \E k \in 1..Len(csv.lines) :
                    /\ csv.lines[k].price = src[i].price
                    /\ csv.lines[k].carat = src[i].carat
                    /\ csv.lines[k].price_band = ""
          /\ \A k \in 1..Len(csv.lines) :
                (csv.lines[k].price_band = "") <=> (csv.lines[k].price > 5000 * Scale)

C6_Witness ==
    /\ pc = "done"
    /\ \E k \in 1..Len(csv.lines) :
          csv.lines[k].price > 5000 * Scale /\ csv.lines[k].price_band = ""
    /\ \E k \in 1..Len(csv.lines) :
          csv.lines[k].price = 5000 * Scale /\ csv.lines[k].price_band = "$2k+"

Abs(x) == IF x < 0 THEN 0 - x ELSE x

\* C7: the stored price_per_carat of a row is that row's price / carat rounded
\* to two decimals: it is within half a hundredth of the quotient, and on an
\* exact tie it is the even hundredth.
C7_PricePerCaratRounded ==
    pc \in {"categorise", "band", "analyse", "render", "export", "done"} =>
        \A i \in 1..Len(df) :
            LET q == df[i].price_per_carat
                e == Abs(q * df[i].carat - df[i].price * Scale)
            IN  /\ 2 * e <= df[i].carat
                /\ (2 * e = df[i].carat) => (q % 2 = 0)

\* a tie that rounds up to the even hundredth: 0.03 / 0.08 = 0.375 -> 0.38
C7_Witness ==
    /\ pc = "done"
    /\ \E k \in 1..Len(csv.lines) :
          /\ csv.lines[k].price = 3
          /\ csv.lines[k].carat = 8
          /\ csv.lines[k].price_per_carat = 38

\* C8 as claimed: a run never ends with exactly one of the two files written.
C8_NoPartialOutput == Terminated => (png <=> csv.written)

\* C8 amended: the CSV is never written without the image; a run that fails
\* before the export has written no CSV, one that fails before the image is
\* saved has written neither, one whose export fails leaves the image alone,
\* and a run that completes has written both.
C8_ImageBeforeCsv ==
    /\ csv.written => png
    /\ pc = "done" => (png /\ csv.written)
    /\ pc = "failed" => ~csv.written
    /\ (pc = "failed" /\ failedAt # "export") => ~png
    /\ (pc = "failed" /\ failedAt = "export") => png

C8_Witness == pc = "failed" /\ failedAt = "export" /\ png /\ ~csv.written

Succ(s) == IF Pos(s) = Len(Stages) THEN "done" ELSE Stages[Pos(s) + 1]

StepInOrder ==
    pc' # pc => /\ pc \in StageSet
                /\ pc' = "failed" \/ pc' = Succ(pc)
                /\ pc' = "failed" => executed' = executed
                /\ pc' # "failed" => executed' = [executed EXCEPT ![pc] = 1]

RunShape ==
    /\ pc \in StageSet =>
          \A s \in StageSet : executed[s] = IF Pos(s) < Pos(pc) THEN 1 ELSE 0
    /\ pc = "failed" =>
          \A s \in StageSet : executed[s] = IF Pos(s) < Pos(failedAt) THEN 1 ELSE 0
    /\ pc = "done" => \A s \in StageSet : executed[s] = 1

\* C9: the statement groups run in the one fixed order, each at most once; a
\* failure ends the run with no later group executed; a run without failure
\* executes each group once; every run ends.
C9_StagesInOrder == [][StepInOrder]_vars /\ []RunShape /\ <>Terminated

C9_Witness == pc = "done" /\ failedAt = "" /\ \A s \in StageSet : executed[s] = 1

SameInputCells(a, b) ==
    /\ a.idx = b.idx
    /\ a.carat = b.carat
    /\ a.cut = b.cut
    /\ a.color = b.color
    /\ a.price = b.price

FrameStep ==
    /\ pc \in {"analyse", "render", "export"} => (df' = df /\ columns' = columns)
    /\ (pc \in {"ppc", "categorise", "band"} /\ pc' # "failed") =>
          /\ Len(df') = Len(df)
          /\ \A i \in 1..Len(df) : SameInputCells(df'[i], df[i])
          /\ Len(columns') = Len(columns) + 1
          /\ SubSeq(columns', 1, Len(columns)) = columns
    /\ pc \in {"categorise", "band"} /\ pc' # "failed" =>
          \A i \in 1..Len(df) : df'[i].price_per_carat = df[i].price_per_carat
    /\ pc = "band" /\ pc' # "failed" =>
          \A i \in 1..Len(df) : df'[i].value_category = df[i].value_category

ExportedShape ==
    pc = "done" =>
        /\ csv.header = <<"carat", "cut", "color", "price",
                          "price_per_carat", "value_category", "price_band">>
        /\ Len(csv.lines) = Cardinality(Survivors)
        /\ \A k \in 1..Len(csv.lines) :
              /\ csv.lines[k].carat = src[Kth(k)].carat
              /\ csv.lines[k].color = src[Kth(k)].color
              /\ csv.lines[k].price = src[Kth(k)].price
              /\ csv.lines[k].cut = Title(Strip(src[Kth(k)].cut))
              /\ DOMAIN csv.lines[k] = {csv.header[c] : c \in 1..Len(csv.header)}

\* C10: the analyser and the renderer leave the table as it is, the
\* transformer only appends its three columns, and the exported file holds one
\* line per surviving record, in file order, with the four input columns and
\* the three derived ones.
C10_FrameAndExport == [][FrameStep]_vars /\ []ExportedShape

C10_Witness ==
    /\ pc = "done"
    /\ Len(csv.lines) >= 2
    /\ Len(csv.lines) < Len(src)
    /\ csv.lines[1].price # csv.lines[2].price
====
